---- MODULE Spec2Model ----
(***************************************************************************)
(* SimPEG magnetics: MagneticSurvey (SimPEG/potential_fields/magnetics/    *)
(* survey.py) and the MagneticIntegralSimulation the tutorial              *)
(* (tutorials/temporary/plot_2_magnetics.py) drives.                       *)
(*                                                                         *)
(* A receiver is [locations, components]: locations is the (N,3) array,    *)
(* kept as the sequence of its N rows, and components is the insertion-    *)
(* ordered dict component -> mask, kept as the sequence of its items.      *)
(* A mask is None or a numpy boolean array (the code calls .sum() on it),  *)
(* kept as [isNone, bits].                                                 *)
(***************************************************************************)
EXTENDS Integers, Sequences, FiniteSets, TLC

VARIABLES survey, receiver_list, _vnD, ret, nMut,
          forwardOnly, modelType, nC, simState, G, nBuilt, nKernel, simPc, cur, nCalls, out

surveyVars == <<survey, receiver_list, _vnD, ret, nMut>>
simVars == <<forwardOnly, modelType, nC, simState, G, nBuilt, nKernel, simPc, cur, nCalls, out>>
vars == <<survey, receiver_list, _vnD, ret, nMut,
          forwardOnly, modelType, nC, simState, G, nBuilt, nKernel, simPc, cur, nCalls, out>>

\* ---------------------------------------------------------------- bounds
MaxRx == 2          \* receivers in a source field's receiver list
MaxLoc == 2         \* observation locations of one receiver
MaxMut == 2         \* in-place changes of the receiver list in one run
MaxNC == 1          \* active cells of the mesh
MaxCalls == 2       \* dpred calls in one run

ComponentNames == {"tmi", "bx"}

\* ---------------------------------------------------------------- values
None == [isNone |-> TRUE, bits |-> <<>>]

Array(bits) == [isNone |-> FALSE, bits |-> bits]

BoolSeqs(n) == [1..n -> BOOLEAN]

\* The masks a component of a receiver with n locations can hold: None, the
\* empty array, or a boolean array over the n locations.
Masks(n) == {None, Array(<<>>)} \cup {Array(b) : b \in BoolSeqs(n)}

Locations(n) == [i \in 1..n |-> i]

SeqsUpTo(S, k) == UNION {[1..n -> S] : n \in 0..k}

\* Insertion-ordered dicts over ComponentNames (keys are distinct).
Components(n) ==
    {cs \in SeqsUpTo([name : ComponentNames, mask : Masks(n)],
                     Cardinality(ComponentNames)) :
        \A i, j \in 1..Len(cs) : i # j => cs[i].name # cs[j].name}

Receivers ==
    UNION {{[locations |-> Locations(n), components |-> cs] : cs \in Components(n)} :
             n \in 1..MaxLoc}

ReceiverLists == SeqsUpTo(Receivers, MaxRx)

\* ---------------------------------------------------------------- numpy / python
RECURSIVE CountTrue(_)
CountTrue(bits) ==
    IF bits = <<>> THEN 0
    ELSE (IF bits[1] THEN 1 ELSE 0) + CountTrue(Tail(bits))

RECURSIVE SeqSum(_)
SeqSum(s) == IF s = <<>> THEN 0 ELSE s[1] + SeqSum(Tail(s))

\* `if mask:` -- None and the empty array are falsy (numpy 1.x, which this code
\* was written for, warns on the empty array and answers False), a one-element
\* array has its element's truth value, a longer array raises ValueError
\* (ambiguous truth value).
TruthValue(mask) ==
    IF mask.isNone THEN "False"
    ELSE IF Len(mask.bits) = 0 THEN "False"
    ELSE IF Len(mask.bits) = 1 THEN (IF mask.bits[1] THEN "True" ELSE "False")
    ELSE "ValueError"

\* ---------------------------------------------------------------- MagneticSurvey
Ok(op, v) == [op |-> op, status |-> "ok", val |-> v]

Raise(op, e) == [op |-> op, status |-> e, val |-> <<>>]

\* receiver_list[0]: IndexError on an empty list.
nRx(rl) ==
    IF Len(rl) = 0 THEN Raise("nRx", "IndexError")
    ELSE Ok("nRx", Len(rl[1].locations))

receiver_locations(rl) ==
    IF Len(rl) = 0 THEN Raise("receiver_locations", "IndexError")
    ELSE Ok("receiver_locations", rl[1].locations)

components(rl) ==
    IF Len(rl) = 0 THEN Raise("components", "IndexError")
    ELSE Ok("components", rl[1].components)

\* Variant of the inner loop that gives an empty mask the location count of the
\* receiver being visited instead of self.nRx.
RECURSIVE ComponentLoopOwnCount(_, _, _, _)
ComponentLoopOwnCount(rl, receiver, k, acc) ==
    IF k > Len(receiver.components) THEN [raised |-> FALSE, list |-> acc]
    ELSE LET mask == receiver.components[k].mask
             t == TruthValue(mask) IN
         IF t = "ValueError" THEN [raised |-> TRUE, list |-> acc]
         ELSE IF t = "True"
              THEN ComponentLoopOwnCount(rl, receiver, k + 1,
                                         Append(acc, CountTrue(mask.bits)))
              ELSE ComponentLoopOwnCount(rl, receiver, k + 1,
                                         Append(acc, Len(receiver.locations)))

\* The inner loop of vnD over one receiver's components, appending to acc; stops
\* at the first component whose truth test raises, with what was appended so far.
RECURSIVE ComponentLoop(_, _, _, _)
ComponentLoop(rl, receiver, k, acc) ==
    IF k > Len(receiver.components) THEN [raised |-> FALSE, list |-> acc]
    ELSE LET mask == receiver.components[k].mask
             t == TruthValue(mask) IN
         IF t = "ValueError" THEN [raised |-> TRUE, list |-> acc]
         ELSE IF t = "True"
              THEN ComponentLoop(rl, receiver, k + 1, Append(acc, CountTrue(mask.bits)))
              ELSE ComponentLoop(rl, receiver, k + 1, Append(acc, nRx(rl).val))

\* The outer loop of vnD over the receiver list.
RECURSIVE ReceiverLoop(_, _, _)
ReceiverLoop(rl, i, acc) ==
    IF i > Len(rl) THEN [raised |-> FALSE, list |-> acc]
    ELSE LET r == ComponentLoop(rl, rl[i], 1, acc) IN
         IF r.raised THEN r ELSE ReceiverLoop(rl, i + 1, r.list)

NoCache == [kind |-> "None", val |-> <<>>]

\* The property vnD: [cache, ret] after one read with the cache as given.
vnD(rl, cache) ==
    IF cache.kind = "None"
    THEN LET r == ReceiverLoop(rl, 1, <<>>) IN
         IF r.raised
         THEN [cache |-> [kind |-> "list", val |-> r.list],
               ret |-> Raise("vnD", "ValueError")]
         ELSE [cache |-> [kind |-> "array", val |-> r.list],
               ret |-> Ok("vnD", [kind |-> "array", val |-> r.list])]
    ELSE [cache |-> cache, ret |-> Ok("vnD", cache)]

\* The property nD: self.vnD.sum(); a Python list has no sum().
nD(rl, cache) ==
    LET v == vnD(rl, cache) IN
    IF v.ret.status # "ok" THEN [cache |-> v.cache, ret |-> Raise("nD", v.ret.status)]
    ELSE IF v.ret.val.kind = "list"
         THEN [cache |-> v.cache, ret |-> Raise("nD", "AttributeError")]
         ELSE [cache |-> v.cache, ret |-> Ok("nD", SeqSum(v.ret.val.val))]

NoRet == [op |-> "none", status |-> "ok", val |-> <<>>]

Constructed == survey = "constructed"

\* MagneticSurvey(source_field): keeps the reference, checks nothing; the new
\* object has no _vnD attribute.
Construct ==
    /\ survey' = "constructed"
    /\ _vnD' = NoCache
    /\ ret' = Ok("construct", <<>>)
    /\ UNCHANGED <<receiver_list, nMut>>
    /\ UNCHANGED simVars

ReadNRx ==
    /\ Constructed
    /\ ret' = nRx(receiver_list)
    /\ UNCHANGED <<survey, receiver_list, _vnD, nMut>>
    /\ UNCHANGED simVars

ReadReceiverLocations ==
    /\ Constructed
    /\ ret' = receiver_locations(receiver_list)
    /\ UNCHANGED <<survey, receiver_list, _vnD, nMut>>
    /\ UNCHANGED simVars

ReadComponents ==
    /\ Constructed
    /\ ret' = components(receiver_list)
    /\ UNCHANGED <<survey, receiver_list, _vnD, nMut>>
    /\ UNCHANGED simVars

Fields == {0, 1}

Eval ==
    /\ Constructed
    /\ \E fields \in Fields : ret' = Ok("eval", fields)
    /\ UNCHANGED <<survey, receiver_list, _vnD, nMut>>
    /\ UNCHANGED simVars

\* Variant of the read of vnD whose traversal empties the components dicts it
\* walks.
ReadVnDConsuming ==
    /\ Constructed
    /\ LET v == vnD(receiver_list, _vnD) IN
         /\ _vnD' = v.cache
         /\ ret' = v.ret
    /\ receiver_list' =
         IF _vnD.kind = "None"
         THEN [i \in 1..Len(receiver_list) |->
                 [receiver_list[i] EXCEPT !.components = <<>>]]
         ELSE receiver_list
    /\ UNCHANGED <<survey, nMut>>
    /\ UNCHANGED simVars

ReadVnD ==
    /\ Constructed
    /\ LET v == vnD(receiver_list, _vnD) IN
         /\ _vnD' = v.cache
         /\ ret' = v.ret
    /\ UNCHANGED <<survey, receiver_list, nMut>>
    /\ UNCHANGED simVars

ReadND ==
    /\ Constructed
    /\ LET v == nD(receiver_list, _vnD) IN
         /\ _vnD' = v.cache
         /\ ret' = v.ret
    /\ UNCHANGED <<survey, receiver_list, nMut>>
    /\ UNCHANGED simVars

\* survey._vnD = None, from outside.
Invalidate ==
    /\ Constructed
    /\ _vnD' = NoCache
    /\ ret' = Ok("invalidate", <<>>)
    /\ UNCHANGED <<survey, receiver_list, nMut>>
    /\ UNCHANGED simVars

\* ---------------------------------------------------------------- the caller's source field
\* The survey keeps a reference to source_field and reads receiver_list and each
\* components dict at every uncached read, so the caller's in-place changes of
\* them are steps of the system. Each counts against MaxMut.
Mutated == [op |-> "mutate", status |-> "ok", val |-> <<>>]

\* receiver_list.append(r)
AppendReceiver ==
    /\ nMut < MaxMut
    /\ Len(receiver_list) < MaxRx
    /\ \E r \in Receivers : receiver_list' = Append(receiver_list, r)
    /\ nMut' = nMut + 1
    /\ ret' = Mutated
    /\ UNCHANGED <<survey, _vnD>>
    /\ UNCHANGED simVars

\* del receiver_list[i]
RemoveReceiver ==
    /\ nMut < MaxMut
    /\ \E i \in 1..Len(receiver_list) :
         receiver_list' = SubSeq(receiver_list, 1, i - 1)
                            \o SubSeq(receiver_list, i + 1, Len(receiver_list))
    /\ nMut' = nMut + 1
    /\ ret' = Mutated
    /\ UNCHANGED <<survey, _vnD>>
    /\ UNCHANGED simVars

\* dict assignment d[name] = mask: an existing key keeps its place, a new key
\* goes last.
DictSet(comps, name, mask) ==
    IF \E k \in 1..Len(comps) : comps[k].name = name
    THEN [k \in 1..Len(comps) |->
            IF comps[k].name = name THEN [name |-> name, mask |-> mask] ELSE comps[k]]
    ELSE Append(comps, [name |-> name, mask |-> mask])

\* del d[name]
DictDel(comps, name) == SelectSeq(comps, LAMBDA c : c.name # name)

\* receiver_list[i].components[name] = mask
SetComponent ==
    /\ nMut < MaxMut
    /\ \E i \in 1..Len(receiver_list), name \in ComponentNames :
         \E mask \in Masks(Len(receiver_list[i].locations)) :
            receiver_list' =
                [receiver_list EXCEPT ![i].components = DictSet(@, name, mask)]
    /\ nMut' = nMut + 1
    /\ ret' = Mutated
    /\ UNCHANGED <<survey, _vnD>>
    /\ UNCHANGED simVars

\* del receiver_list[i].components[name]
DelComponent ==
    /\ nMut < MaxMut
    /\ \E i \in 1..Len(receiver_list) :
         \E k \in 1..Len(receiver_list[i].components) :
            receiver_list' =
                [receiver_list EXCEPT
                   ![i].components = DictDel(@, receiver_list[i].components[k].name)]
    /\ nMut' = nMut + 1
    /\ ret' = Mutated
    /\ UNCHANGED <<survey, _vnD>>
    /\ UNCHANGED simVars

\* ---------------------------------------------------------------- MagneticIntegralSimulation
ModelTypes == {"susceptibility", "vector"}

ModelValues == {0, 1}

\* Model vectors handed to dpred: every length up to one past the longest valid.
Models == SeqsUpTo(ModelValues, 3 * MaxNC + 1)

\* Columns of the sensitivity operator: nC, or 3 nC for a vector model.
Columns(mt, nc) == IF mt = "susceptibility" THEN nc ELSE 3 * nc

\* The prism kernel entry of data row i and model column j: a fixed function of
\* the geometry, the same at every evaluation.
Kernel(i, j) == ((2 * i + 3 * j) % 5) - 2

\* forwardOnly = false: the dense operator, nD rows of Columns entries.
BuildOperator(nd, ncols) == [i \in 1..nd |-> [j \in 1..ncols |-> Kernel(i, j)]]

RECURSIVE Dot(_, _)
Dot(row, m) ==
    IF row = <<>> THEN 0 ELSE row[1] * m[1] + Dot(Tail(row), Tail(m))

\* operator . model
MatVec(op, m) == [i \in 1..Len(op) |-> Dot(op[i], m)]

\* forwardOnly = true: one datum, accumulated over the cells with the kernel
\* evaluated on the fly.
RECURSIVE AccumulateRow(_, _, _, _)
AccumulateRow(i, j, m, acc) ==
    IF j > Len(m) THEN acc
    ELSE AccumulateRow(i, j + 1, m, acc + Kernel(i, j) * m[j])

Accumulate(nd, m) == [i \in 1..nd |-> AccumulateRow(i, 1, m, 0)]

\* nCalls counts the calls of dpred, up to MaxCalls.
NoOut == [status |-> "none", model |-> <<>>, val |-> <<>>]

\* dpred(model), entry: the length check comes first; a wrong length ends the
\* call there.
\* Variant of the entry of dpred without the length check.
PredictCallUnchecked ==
    /\ Constructed
    /\ simPc = "idle"
    /\ nCalls < MaxCalls
    /\ nCalls' = nCalls + 1
    /\ \E m \in Models :
         /\ cur' = m
         /\ simPc' = "assemble"
         /\ out' = NoOut
    /\ UNCHANGED <<forwardOnly, modelType, nC, simState, G, nBuilt, nKernel>>
    /\ UNCHANGED surveyVars

PredictCall ==
    /\ Constructed
    /\ simPc = "idle"
    /\ nCalls < MaxCalls
    /\ nCalls' = nCalls + 1
    /\ \E m \in Models :
         IF Len(m) # Columns(modelType, nC)
         THEN /\ out' = [status |-> "DimensionError", model |-> m, val |-> <<>>]
              /\ UNCHANGED <<simPc, cur>>
         ELSE /\ cur' = m
              /\ simPc' = "assemble"
              /\ out' = NoOut
    /\ UNCHANGED <<forwardOnly, modelType, nC, simState, G, nBuilt, nKernel>>
    /\ UNCHANGED surveyVars

\* Kernel assembly, on the first call only.
AssembleKernel ==
    /\ simPc = "assemble"
    /\ IF simState = "Unbuilt"
       THEN /\ simState' = "KernelAssembled"
            /\ nKernel' = nKernel + 1
       ELSE UNCHANGED <<simState, nKernel>>
    /\ simPc' = IF forwardOnly THEN "apply" ELSE "materialize"
    /\ UNCHANGED <<forwardOnly, modelType, nC, G, nBuilt, cur, nCalls, out>>
    /\ UNCHANGED surveyVars

\* forwardOnly = false: the operator is built once, with survey.nD rows, and kept.
\* Variant that builds the operator anew at every call.
MaterializeEveryCall ==
    /\ simPc = "materialize"
    /\ LET n == nD(receiver_list, _vnD) IN
         /\ _vnD' = n.cache
         /\ G' = BuildOperator(n.ret.val, Columns(modelType, nC))
         /\ nBuilt' = nBuilt + 1
         /\ simState' = "MatrixMaterialized"
    /\ simPc' = "apply"
    /\ UNCHANGED <<forwardOnly, modelType, nC, nKernel, cur, nCalls, out>>
    /\ UNCHANGED <<survey, receiver_list, ret, nMut>>

Materialize ==
    /\ simPc = "materialize"
    /\ LET n == nD(receiver_list, _vnD) IN
         /\ _vnD' = n.cache
         /\ IF simState # "MatrixMaterialized"
            THEN /\ G' = BuildOperator(n.ret.val, Columns(modelType, nC))
                 /\ nBuilt' = nBuilt + 1
                 /\ simState' = "MatrixMaterialized"
            ELSE UNCHANGED <<G, nBuilt, simState>>
    /\ simPc' = "apply"
    /\ UNCHANGED <<forwardOnly, modelType, nC, nKernel, cur, nCalls, out>>
    /\ UNCHANGED <<survey, receiver_list, ret, nMut>>

\* The data vector: operator . model, or the direct accumulation.
Apply ==
    /\ simPc = "apply"
    /\ LET n == nD(receiver_list, _vnD) IN
         /\ _vnD' = n.cache
         /\ out' = [status |-> "ok", model |-> cur,
                    val |-> IF forwardOnly THEN Accumulate(n.ret.val, cur)
                            ELSE MatVec(G, cur)]
    /\ simPc' = "idle"
    /\ cur' = <<>>
    /\ UNCHANGED <<forwardOnly, modelType, nC, simState, G, nBuilt, nKernel, nCalls>>
    /\ UNCHANGED <<survey, receiver_list, ret, nMut>>

\* ---------------------------------------------------------------- specifications
SimIdle ==
    /\ forwardOnly = FALSE
    /\ modelType = "susceptibility"
    /\ nC = 1
    /\ simState = "Unbuilt"
    /\ G = <<>>
    /\ nBuilt = 0
    /\ nKernel = 0
    /\ simPc = "idle"
    /\ cur = <<>>
    /\ nCalls = 0
    /\ out = NoOut

\* Any source field within the bounds; no survey object yet.
Init ==
    /\ survey = "none"
    /\ receiver_list \in ReceiverLists
    /\ _vnD = NoCache
    /\ ret = NoRet
    /\ nMut = 0
    /\ SimIdle

Next ==
    \/ Construct
    \/ ReadNRx
    \/ ReadReceiverLocations
    \/ ReadComponents
    \/ Eval
    \/ ReadVnD
    \/ ReadND
    \/ Invalidate

Spec == Init /\ [][Next]_vars

\* The tutorial's source field: one point receiver measuring "tmi".
TutorialReceiverLists ==
    UNION {{<<[locations |-> Locations(n),
               components |-> <<[name |-> "tmi", mask |-> m]>>]>> : m \in Masks(n)} :
             n \in 1..MaxLoc}

InitMut ==
    /\ survey = "none"
    /\ receiver_list \in TutorialReceiverLists
    /\ _vnD = NoCache
    /\ ret = NoRet
    /\ nMut = 0
    /\ SimIdle

NextMut ==
    \/ Construct
    \/ ReadNRx
    \/ ReadReceiverLocations
    \/ ReadComponents
    \/ Eval
    \/ ReadVnD
    \/ ReadND
    \/ Invalidate
    \/ AppendReceiver
    \/ RemoveReceiver
    \/ SetComponent
    \/ DelComponent

SpecMut == InitMut /\ [][NextMut]_vars

\* The tutorial's survey with "tmi" measured at every location (the mask that
\* means all locations: None or empty), and a simulation over it.
InitSim ==
    /\ survey = "constructed"
    /\ receiver_list \in {rl \in TutorialReceiverLists :
                            rl[1].components[1].mask \in {None, Array(<<>>)}}
    /\ _vnD = NoCache
    /\ ret = NoRet
    /\ nMut = 0
    /\ forwardOnly \in BOOLEAN
    /\ modelType \in ModelTypes
    /\ nC \in 1..MaxNC
    /\ simState = "Unbuilt"
    /\ G = <<>>
    /\ nBuilt = 0
    /\ nKernel = 0
    /\ simPc = "idle"
    /\ cur = <<>>
    /\ nCalls = 0
    /\ out = NoOut

NextSim ==
    \/ PredictCall
    \/ AssembleKernel
    \/ Materialize
    \/ Apply

SpecSim == InitSim /\ [][NextSim]_vars

\* ---------------------------------------------------------------- what the claims speak of
\* The (receiver, component) pairs of a receiver list: receiver-list order first,
\* then the insertion order of each receiver's components.
RECURSIVE PairsFrom(_, _)
PairsFrom(rl, i) ==
    IF i > Len(rl) THEN <<>>
    ELSE [k \in 1..Len(rl[i].components) |-> [rx |-> i, k |-> k]] \o PairsFrom(rl, i + 1)

Pairs(rl) == PairsFrom(rl, 1)

MaskOf(rl, p) == rl[p.rx].components[p.k].mask

IsEmptyMask(m) == m.isNone \/ Len(m.bits) = 0

\* The count the specification gives a pair: nRx for an empty or None mask,
\* mask.sum() otherwise.
SpecCount(rl, p) ==
    IF IsEmptyMask(MaskOf(rl, p)) THEN Len(rl[1].locations)
    ELSE CountTrue(MaskOf(rl, p).bits)

RECURSIVE TotalComponents(_)
TotalComponents(rl) ==
    IF rl = <<>> THEN 0 ELSE Len(rl[1].components) + TotalComponents(Tail(rl))

ReadOps == {"nRx", "receiver_locations", "components", "vnD", "nD", "eval"}

\* C1: on a survey with a non-empty receiver list, whenever a read of vnD returns
\* a value, the read of nD that follows returns the sum of that value's entries.
C1_NDIsSumOfVnD ==
    [][(/\ Len(receiver_list) > 0
        /\ ret.op = "vnD"
        /\ ret.status = "ok"
        /\ ret'.op = "nD")
       => (ret'.status = "ok" /\ ret'.val = SeqSum(ret.val.val))]_vars

\* C2: a read of vnD returns, for every receiver and every component of it, nRx
\* when the component's mask is empty or None and mask.sum() otherwise.
C2_EntryPerMask ==
    ret.op = "vnD" =>
       /\ ret.status = "ok"
       /\ \A p \in 1..Len(Pairs(receiver_list)) :
             /\ p <= Len(ret.val.val)
             /\ ret.val.val[p] = SpecCount(receiver_list, Pairs(receiver_list)[p])

\* The count one pair contributes on its own: what vnD gives the receiver list
\* cut down to the first receiver's locations and this one component.
PairCount(rl, p) ==
    ReceiverLoop(<<[locations |-> rl[1].locations,
                    components |-> <<rl[p.rx].components[p.k]>>]>>, 1, <<>>).list[1]

\* C3: the value a read of vnD returns has one entry per (receiver, component)
\* pair, in receiver-list order and then component insertion order: its length
\* is the sum over receivers of their number of components, and its p-th entry
\* is the count of the p-th pair in that order.
C3_OneEntryPerPairInOrder ==
    (ret.op = "vnD" /\ ret.status = "ok") =>
       /\ Len(ret.val.val) = TotalComponents(receiver_list)
       /\ \A p \in 1..Len(ret.val.val) :
             /\ p <= Len(Pairs(receiver_list))
             /\ ret.val.val[p] = PairCount(receiver_list, Pairs(receiver_list)[p])

\* C4: no survey object over an empty receiver list exists: construction from
\* one fails.
C4_NoSurveyOverEmptyList ==
    Constructed => Len(receiver_list) > 0

\* C5: a value vnD returns from a completed traversal is the value a traversal of
\* the current receiver list gives, whatever reads and receiver-list changes
\* came before.
C5_CacheFollowsReceiverList ==
    (ret.op = "vnD" /\ ret.status = "ok" /\ ret.val.kind = "array") =>
       LET r == ReceiverLoop(receiver_list, 1, <<>>) IN
         ~r.raised /\ r.list = ret.val.val

\* C6: a read (nRx, receiver_locations, components, vnD, nD, eval) leaves the
\* source field's receiver list and the survey object as they were; only vnD and
\* nD may change the _vnD cache.
C6_ReadsLeaveSourceField ==
    [][ret'.op \in ReadOps =>
         /\ receiver_list' = receiver_list
         /\ survey' = survey
         /\ (ret'.op \notin {"vnD", "nD"} => _vnD' = _vnD)]_vars

C6_Witness ==
    /\ ret.op = "vnD"
    /\ ret.status = "ok"
    /\ _vnD.kind = "array"
    /\ Len(receiver_list) = MaxRx
    /\ TotalComponents(receiver_list) > 1

\* C9: nRx, receiver_locations and components are the first receiver's, and every
\* count vnD emits for an empty or None mask is the first receiver's location
\* count, whichever receiver the component belongs to.
C9_FirstReceiver ==
    /\ (ret.op = "nRx" /\ Len(receiver_list) > 0) =>
          (ret.status = "ok" /\ ret.val = Len(receiver_list[1].locations))
    /\ (ret.op = "receiver_locations" /\ Len(receiver_list) > 0) =>
          (ret.status = "ok" /\ ret.val = receiver_list[1].locations)
    /\ (ret.op = "components" /\ Len(receiver_list) > 0) =>
          (ret.status = "ok" /\ ret.val = receiver_list[1].components)
    /\ (ret.op = "vnD" /\ ret.status = "ok") =>
          \A p \in 1..Len(ret.val.val) :
             IsEmptyMask(MaskOf(receiver_list, Pairs(receiver_list)[p])) =>
                ret.val.val[p] = Len(receiver_list[1].locations)

C9_Witness ==
    /\ ret.op = "vnD"
    /\ ret.status = "ok"
    /\ Len(receiver_list) = 2
    /\ Len(receiver_list[2].locations) # Len(receiver_list[1].locations)
    /\ \E p \in 1..Len(ret.val.val) :
          /\ Pairs(receiver_list)[p].rx = 2
          /\ IsEmptyMask(MaskOf(receiver_list, Pairs(receiver_list)[p]))
          /\ ret.val.val[p] = Len(receiver_list[1].locations)

\* C10: a read of vnD stores what it computed, and consecutive reads of vnD, and
\* of nD, on an unchanged survey have equal outcomes.
C10_ConsecutiveReadsAgree ==
    [][/\ (ret'.op = "vnD" => _vnD'.kind # "None")
       /\ ((ret.op = "vnD" /\ ret'.op = "vnD") => ret' = ret)
       /\ ((ret.op = "nD" /\ ret'.op = "nD") => ret' = ret)]_vars

\* C7: the simulator's state only moves Unbuilt -> KernelAssembled ->
\* MatrixMaterialized; with forwardOnly it never materializes or keeps an
\* operator; without it the operator is built at most once and kept; every data
\* vector has nD entries and is the one the other mode computes from the same
\* model.
C7_StateInv ==
    /\ simState \in {"Unbuilt", "KernelAssembled", "MatrixMaterialized"}
    /\ forwardOnly => (simState # "MatrixMaterialized" /\ G = <<>> /\ nBuilt = 0)
    /\ nBuilt <= 1
    /\ (simState = "MatrixMaterialized") = (nBuilt = 1)
    /\ out.status = "ok" =>
          LET n == nD(receiver_list, _vnD).ret.val
              cols == Columns(modelType, nC) IN
            /\ Len(out.val) = n
            /\ out.val = IF forwardOnly
                         THEN MatVec(BuildOperator(n, cols), out.model)
                         ELSE Accumulate(n, out.model)

\* C7, as a property of behaviours: the state invariant above holds throughout,
\* the simulator's state changes only one step forward along Unbuilt ->
\* KernelAssembled -> MatrixMaterialized, and a materialized operator is kept
\* and never built again.
C7_ForwardSimulator ==
    /\ []C7_StateInv
    /\ [][/\ simState' # simState =>
               \/ (simState = "Unbuilt" /\ simState' = "KernelAssembled")
               \/ (simState = "KernelAssembled" /\ simState' = "MatrixMaterialized")
          /\ simState = "MatrixMaterialized" => (G' = G /\ nBuilt' = nBuilt)]_vars

C7_Witness ==
    /\ ~forwardOnly
    /\ nCalls = MaxCalls
    /\ nBuilt = 1
    /\ simState = "MatrixMaterialized"
    /\ out.status = "ok"
    /\ \E i \in 1..Len(out.val) : out.val[i] # 0

\* C8: a model vector whose length is not nC (susceptibility) or 3 nC (vector)
\* is rejected at entry with a DimensionError: no data vector, no kernel
\* evaluation, the simulator's state as before; only a model of the right
\* length gets past entry.
C8_StateInv ==
    /\ out.status = "DimensionError" =>
          (Len(out.model) # Columns(modelType, nC) /\ out.val = <<>>)
    /\ out.status = "ok" => Len(out.model) = Columns(modelType, nC)
    /\ simPc # "idle" => Len(cur) = Columns(modelType, nC)

\* C8, as a property of behaviours: the state invariant above holds throughout,
\* and the step that ends in a DimensionError starts at entry and leaves the
\* simulator's state, its cached operator and its counters unchanged.
C8_RejectsAtEntry ==
    /\ []C8_StateInv
    /\ [][out'.status = "DimensionError" =>
            /\ simPc = "idle"
            /\ UNCHANGED <<simState, G, nBuilt, nKernel, simPc, cur>>]_vars

C8_Witness ==
    /\ out.status = "DimensionError"
    /\ simState = "MatrixMaterialized"
    /\ nBuilt = 1
    /\ G # <<>>

====
